---- MODULE Spec2Model ----
(***************************************************************************)
(* Model of the FileUpload component (src/file-upload.tsx).                *)
(*                                                                         *)
(* State: the React state `files` and `isDragOver`, the value of the       *)
(* hidden file input, the pool of object URLs handed out by                *)
(* URL.createObjectURL and the calls made to URL.revokeObjectURL, and the  *)
(* view React has last committed.  An event handler runs to completion     *)
(* (state updaters included) and leaves pc = "render"; the commit of the   *)
(* re-render is the only step enabled then.                                *)
(*                                                                         *)
(* Strings that the code inspects (MIME types, size labels) are sequences  *)
(* of one-character strings.  A byte count b is the pair [m, e] standing   *)
(* for m * 1024^e, which keeps 1024^4 and beyond within 32-bit integers.   *)
(***************************************************************************)
EXTENDS Integers, Sequences, FiniteSets, TLC

VARIABLES files, isDragOver, inputValue, urlCount, revokeLog,
          rendered, renderedDragOver, pc, accepted, ev

vars == <<files, isDragOver, inputValue, urlCount, revokeLog,
          rendered, renderedDragOver, pc, accepted, ev>>

(* ---------------------------- bounds ----------------------------------- *)

\* number of records appended over a whole run
MaxAccepted == 3

\* longest batch one picker confirmation or one drop delivers
MaxBatch == 2

\* number of distinct strings generateId can return
NumIds == 2

Ids == 1..NumIds

(* ------------------------ character strings ---------------------------- *)

ImageSlash == <<"i","m","a","g","e","/">>

ImagePng == <<"i","m","a","g","e","/","p","n","g">>

ApplicationPdf == <<"a","p","p","l","i","c","a","t","i","o","n","/","p","d","f">>

Range(s) == {s[i] : i \in DOMAIN s}

(* ------------------------- host file handles --------------------------- *)

Bytes(m, e) == [m |-> m, e |-> e]

HostFiles ==
  { [type |-> ImagePng,       size |-> Bytes(1536, 0)],
    [type |-> ApplicationPdf, size |-> Bytes(1, 4)] }

\* a FileList: the batch one interaction delivers
FileLists == UNION { [1..n -> HostFiles] : n \in 0..MaxBatch }

(* --------------------------- formatFileSize ---------------------------- *)

k == 1024

sizes == << <<"B","y","t","e","s">>, <<"K","B">>, <<"M","B">>, <<"G","B">> >>

Undefined == <<"u","n","d","e","f","i","n","e","d">>

DigitChar == <<"0","1","2","3","4","5","6","7","8","9">>

RECURSIVE Pow(_, _)
Pow(b, n) == IF n = 0 THEN 1 ELSE b * Pow(b, n - 1)

\* floor(log(m) / log(k)) for an integer m >= 1
RECURSIVE FloorLog(_)
FloorLog(m) == IF m < k THEN 0 ELSE 1 + FloorLog(m \div k)

\* i = Math.floor(Math.log(bytes) / Math.log(k))
UnitIndex(bytes) == bytes.e + FloorLog(bytes.m)

\* (bytes / Math.pow(k, i)).toFixed(2), as a count of hundredths; a tie
\* rounds up, the quotient by a power of two being exact
ToFixed2(bytes, i) ==
  LET den == Pow(k, i - bytes.e)
  IN  (200 * bytes.m + den) \div (2 * den)

RECURSIVE IntToString(_)
IntToString(n) ==
  IF n < 10 THEN <<DigitChar[n + 1]>>
  ELSE Append(IntToString(n \div 10), DigitChar[(n % 10) + 1])

\* Number.parseFloat(s) + "": the shortest decimal, trailing zeros dropped
NumberToString(h) ==
  LET whole == h \div 100
      frac  == h % 100
  IN  IF frac = 0 THEN IntToString(whole)
      ELSE IF frac % 10 = 0
           THEN IntToString(whole) \o <<".", DigitChar[(frac \div 10) + 1]>>
           ELSE IntToString(whole) \o
                <<".", DigitChar[(frac \div 10) + 1], DigitChar[(frac % 10) + 1]>>

\* sizes[i], JavaScript indexing from 0; out of range reads undefined
SizesAt(i) == IF i + 1 \in DOMAIN sizes THEN sizes[i + 1] ELSE Undefined

formatFileSize(bytes) ==
  IF bytes.m = 0 THEN <<"0", " ">> \o sizes[1]
  ELSE LET i == UnitIndex(bytes)
       IN  NumberToString(ToFixed2(bytes, i)) \o <<" ">> \o SizesAt(i)

(* --------------------------- handleFileSelect -------------------------- *)

RECURSIVE startsWith(_, _)
startsWith(str, search) ==
  IF search = <<>> THEN TRUE
  ELSE IF str = <<>> THEN FALSE
  ELSE Head(str) = Head(search) /\ startsWith(Tail(str), Tail(search))

\* object URLs created for the files before position i of the batch
UrlsBefore(selectedFiles, i) ==
  Cardinality({j \in 1..(i - 1) : startsWith(selectedFiles[j].type, ImageSlash)})

\* a .map callback that creates an object URL whatever the file's type
FileWithIdAnyType(selectedFiles, ids, created, i) ==
  [id |-> ids[i], file |-> selectedFiles[i], previewUrl |-> created + i]

\* the .map callback: one FileWithId per file, ids[i] the value generateId
\* returned for it, created the number of object URLs handed out so far
FileWithId(selectedFiles, ids, created, i) ==
  IF startsWith(selectedFiles[i].type, ImageSlash)
  THEN [id |-> ids[i], file |-> selectedFiles[i],
        previewUrl |-> created + UrlsBefore(selectedFiles, i) + 1]
  ELSE [id |-> ids[i], file |-> selectedFiles[i]]

NewFiles(selectedFiles, ids, created) ==
  [i \in 1..Len(selectedFiles) |-> FileWithId(selectedFiles, ids, created, i)]

HasPreview(f) == "previewUrl" \in DOMAIN f

\* a handleFileSelect that puts the new records first: [...newFiles, ...prev]
handleFileSelectPrepend(selectedFiles, ids) ==
  LET newFiles == NewFiles(selectedFiles, ids, urlCount)
  IN  /\ files' = newFiles \o files
      /\ urlCount' = urlCount + Cardinality({i \in DOMAIN newFiles : HasPreview(newFiles[i])})
      /\ accepted' = accepted \o newFiles

\* handleFileSelect(selectedFiles) with the ids generateId returns
handleFileSelect(selectedFiles, ids) ==
  LET newFiles == NewFiles(selectedFiles, ids, urlCount)
  IN  /\ files' = files \o newFiles
      /\ urlCount' = urlCount + Cardinality({i \in DOMAIN newFiles : HasPreview(newFiles[i])})
      /\ accepted' = accepted \o newFiles

(* ------------------------------- render -------------------------------- *)

\* one row of files.map: key, <img src> when previewUrl is set, size label
Row(fileItem) ==
  IF HasPreview(fileItem)
  THEN [key |-> fileItem.id, src |-> fileItem.previewUrl,
        label |-> formatFileSize(fileItem.file.size)]
  ELSE [key |-> fileItem.id, label |-> formatFileSize(fileItem.file.size)]

View(fs) == [i \in 1..Len(fs) |-> Row(fs[i])]

(* ------------------------------- state --------------------------------- *)

Init ==
  /\ files = <<>>
  /\ isDragOver = FALSE
  /\ inputValue = <<>>
  /\ urlCount = 0
  /\ revokeLog = <<>>
  /\ rendered = <<>>
  /\ renderedDragOver = FALSE
  /\ pc = "idle"
  /\ accepted = <<>>
  /\ ev = [op |-> "init"]

\* the user confirms a selection in the picker: the browser stores it in
\* the input and dispatches change, which it does only for a new value
PickFiles(selection) ==
  /\ pc = "idle"
  /\ selection # <<>>
  /\ selection # inputValue
  /\ Len(accepted) + Len(selection) <= MaxAccepted
  /\ inputValue' = selection
  /\ pc' = "change"
  /\ ev' = [op |-> "pick", batch |-> selection]
  /\ UNCHANGED <<files, isDragOver, urlCount, revokeLog, rendered,
                 renderedDragOver, accepted>>

handleInputChange ==
  /\ pc = "change"
  /\ \E ids \in [1..Len(inputValue) -> Ids] : handleFileSelect(inputValue, ids)
  /\ inputValue' = <<>>
  /\ pc' = "render"
  /\ ev' = [op |-> "change", batch |-> inputValue]
  /\ UNCHANGED <<isDragOver, revokeLog, rendered, renderedDragOver>>

handleDragOver ==
  /\ pc = "idle"
  /\ isDragOver' = TRUE
  /\ pc' = "render"
  /\ ev' = [op |-> "dragover"]
  /\ UNCHANGED <<files, inputValue, urlCount, revokeLog, rendered,
                 renderedDragOver, accepted>>

handleDragLeave ==
  /\ pc = "idle"
  /\ isDragOver' = FALSE
  /\ pc' = "render"
  /\ ev' = [op |-> "dragleave"]
  /\ UNCHANGED <<files, inputValue, urlCount, revokeLog, rendered,
                 renderedDragOver, accepted>>

\* a handleDrop that leaves out setIsDragOver(false)
handleDropKeepFlag(dropped, ids) ==
  /\ pc = "idle"
  /\ Len(accepted) + Len(dropped) <= MaxAccepted
  /\ handleFileSelect(dropped, ids)
  /\ pc' = "render"
  /\ ev' = [op |-> "drop", batch |-> dropped]
  /\ UNCHANGED <<isDragOver, inputValue, revokeLog, rendered, renderedDragOver>>

handleDrop(dropped, ids) ==
  /\ pc = "idle"
  /\ Len(accepted) + Len(dropped) <= MaxAccepted
  /\ isDragOver' = FALSE
  /\ handleFileSelect(dropped, ids)
  /\ pc' = "render"
  /\ ev' = [op |-> "drop", batch |-> dropped]
  /\ UNCHANGED <<inputValue, revokeLog, rendered, renderedDragOver>>

\* a find that falls back to the first record when nothing matches
FindIndexOrFirst(prev, id) ==
  LET hits == {i \in DOMAIN prev : prev[i].id = id}
  IN  IF hits = {} THEN (IF prev = <<>> THEN 0 ELSE 1)
      ELSE CHOOSE i \in hits : \A j \in hits : i <= j

\* prev.find((file) => file.id === id): the first match, if any
FindIndex(prev, id) ==
  LET hits == {i \in DOMAIN prev : prev[i].id = id}
  IN  IF hits = {} THEN 0
      ELSE CHOOSE i \in hits : \A j \in hits : i <= j

Filter(prev, id) == SelectSeq(prev, LAMBDA file : file.id # id)

removeFile(id) ==
  /\ pc = "idle"
  /\ LET at == FindIndex(files, id)
     IN  /\ revokeLog' = IF at # 0 /\ HasPreview(files[at])
                         THEN Append(revokeLog, files[at].previewUrl)
                         ELSE revokeLog
         /\ ev' = [op |-> "remove", id |-> id, found |-> at # 0]
  /\ files' = Filter(files, id)
  /\ pc' = "render"
  /\ UNCHANGED <<isDragOver, inputValue, urlCount, rendered,
                 renderedDragOver, accepted>>

\* Clear All: onClick={() => setFiles([])}, shown while files.length > 0
ClearAll ==
  /\ pc = "idle"
  /\ Len(rendered) > 0
  /\ files' = <<>>
  /\ pc' = "render"
  /\ ev' = [op |-> "clear"]
  /\ UNCHANGED <<isDragOver, inputValue, urlCount, revokeLog, rendered,
                 renderedDragOver, accepted>>

\* React commits the re-render the handler's state updates asked for
Render ==
  /\ pc = "render"
  /\ rendered' = View(files)
  /\ renderedDragOver' = isDragOver
  /\ pc' = "idle"
  /\ ev' = [op |-> "render"]
  /\ UNCHANGED <<files, isDragOver, inputValue, urlCount, revokeLog,
                 accepted>>

Next ==
  \/ \E selection \in FileLists : PickFiles(selection)
  \/ handleInputChange
  \/ handleDragOver
  \/ handleDragLeave
  \/ \E dropped \in FileLists : \E ids \in [1..Len(dropped) -> Ids] :
        handleDrop(dropped, ids)
  \/ \E id \in Ids : removeFile(id)
  \/ ClearAll
  \/ Render

Spec == Init /\ [][Next]_vars

(* ----------------------------- properties ------------------------------ *)

\* the step in which the handler named op runs
HandlerStep(op) == pc # "render" /\ pc' # pc /\ ev'.op = op

SelectStep == HandlerStep("change") \/ HandlerStep("drop")

OwnedUrls(fs) == {fs[i].previewUrl : i \in {j \in DOMAIN fs : HasPreview(fs[j])}}

LiveUrls == (1..urlCount) \ Range(revokeLog)

NoDuplicates(s) == \A i, j \in DOMAIN s : i # j => s[i] # s[j]

HasId(fs, id) == \E i \in DOMAIN fs : fs[i].id = id

IsImageType(type) == Len(type) >= Len(ImageSlash) /\ SubSeq(type, 1, Len(ImageSlash)) = ImageSlash

RECURSIVE IsSubseq(_, _)
IsSubseq(s, t) ==
  IF s = <<>> THEN TRUE
  ELSE IF t = <<>> THEN FALSE
  ELSE IF Head(s) = Head(t) THEN IsSubseq(Tail(s), Tail(t))
  ELSE IsSubseq(s, Tail(t))

\* C1: Clear All on a registry of which M records own a preview handle makes
\* exactly M calls of URL.revokeObjectURL, one per owned handle, and leaves
\* the registry empty.
ClearReleasesAll ==
  [][HandlerStep("clear") =>
       /\ files' = <<>>
       /\ Len(revokeLog') = Len(revokeLog) + Cardinality(OwnedUrls(files))
       /\ Range(revokeLog') = Range(revokeLog) \cup OwnedUrls(files)]_vars

\* C2: the preview handles created and not yet released are exactly the
\* previewUrl values of the records in the registry, and no handle is
\* released twice.
NoHandleOutlivesRecord ==
  /\ LiveUrls = OwnedUrls(files)
  /\ NoDuplicates(revokeLog)

\* C3: removeFile(r.id) for a record r of the registry that owns a previewUrl
\* makes exactly one revoke call, for r's handle, and leaves no record with
\* id r.id in the registry.
ReleaseOnRemove ==
  [][HandlerStep("remove") =>
       \A i \in DOMAIN files :
          (files[i].id = ev'.id /\ HasPreview(files[i])) =>
             /\ revokeLog' = Append(revokeLog, files[i].previewUrl)
             /\ ~HasId(files', ev'.id)]_vars

\* C4: no preview handle is revoked while a row of the committed view still
\* shows it.
ReleaseAfterUnrender ==
  \A i \in DOMAIN rendered :
     "src" \in DOMAIN rendered[i] => rendered[i].src \notin Range(revokeLog)

\* C5: the records of the registry have pairwise distinct ids.
IdsUnique ==
  \A i, j \in DOMAIN files : i # j => files[i].id # files[j].id

OrderPreserved ==
  [][/\ SelectStep =>
          LET batch == ev'.batch
              n     == Len(files)
          IN  /\ Len(files') = n + Len(batch)
              /\ SubSeq(files', 1, n) = files
              /\ \A i \in 1..Len(batch) : files'[n + i].file = batch[i]
              /\ (batch = <<>> => files' = files)
     /\ IsSubseq(files', accepted')]_vars

\* C7 witness: a batch of two different files, then a batch of one, and the
\* registry holds the three in that order.
OrderPreservedWitness ==
  /\ ev.op \in {"change", "drop"} /\ pc = "render"
  /\ Len(ev.batch) = 1
  /\ Len(files) = 3
  /\ files[1].file # files[2].file
  /\ files[2].file # files[3].file
  /\ files[3].file = ev.batch[1]
  /\ files = accepted

\* C8: a record a selection creates owns a previewUrl exactly when its
\* file's type begins with "image/"; the selection creates one fresh handle
\* per such file and no other.
PreviewCreationRule ==
  [][SelectStep =>
       LET batch == ev'.batch
           n     == Len(files)
           new   == {n + i : i \in 1..Len(batch)}
       IN  /\ \A i \in 1..Len(batch) :
                 HasPreview(files'[n + i]) <=> IsImageType(batch[i].type)
           /\ \A p \in new :
                 HasPreview(files'[p]) =>
                    /\ files'[p].previewUrl \in (urlCount + 1)..urlCount'
                    /\ \A q \in new \ {p} :
                          HasPreview(files'[q]) =>
                             files'[q].previewUrl # files'[p].previewUrl
           /\ urlCount' - urlCount =
                 Cardinality({i \in 1..Len(batch) : IsImageType(batch[i].type)})]_vars

\* C8 witness: a batch of an image/png file and an application/pdf file; the
\* first record owns a previewUrl and the second does not.
PreviewCreationWitness ==
  /\ ev.op \in {"change", "drop"} /\ pc = "render"
  /\ Len(ev.batch) = 2
  /\ ev.batch[1].type = ImagePng
  /\ ev.batch[2].type = ApplicationPdf
  /\ Len(files) >= 2
  /\ HasPreview(files[Len(files) - 1])
  /\ ~HasPreview(files[Len(files)])

\* the label the specification describes: the unit index clamped to the
\* last label, the value bytes / 1024^index rounded to two decimals
ClampedLabel(bytes) ==
  IF bytes.m = 0 THEN <<"0", " ", "B", "y", "t", "e", "s">>
  ELSE LET raw == bytes.e + FloorLog(bytes.m)
           i   == IF raw > 3 THEN 3 ELSE raw
           h   == IF bytes.e >= i
                  THEN 100 * bytes.m * Pow(1024, bytes.e - i)
                  ELSE (200 * bytes.m + Pow(1024, i - bytes.e))
                          \div (2 * Pow(1024, i - bytes.e))
       IN  NumberToString(h) \o <<" ">> \o sizes[i + 1]

\* C9: the size label of every rendered row is "0 Bytes" for 0 bytes and
\* otherwise the value bytes / 1024^i with the unit sizes[i], i the floor of
\* log_1024(bytes) clamped to the labels Bytes, KB, MB, GB.
SizeLabelClamped ==
  pc = "idle" =>
     \A i \in DOMAIN rendered :
        rendered[i].label = ClampedLabel(files[i].file.size)

\* C10: drag-over sets the flag and drag-leave clears it, and neither
\* touches the registry or the preview handles; a drop clears the flag and
\* appends the dropped batch.
DragFlagFrame ==
  [][/\ HandlerStep("dragover") =>
          isDragOver' /\ UNCHANGED <<files, urlCount, revokeLog, inputValue>>
     /\ HandlerStep("dragleave") =>
          ~isDragOver' /\ UNCHANGED <<files, urlCount, revokeLog, inputValue>>
     /\ HandlerStep("drop") =>
          /\ ~isDragOver'
          /\ Len(files') = Len(files) + Len(ev'.batch)
          /\ \A i \in 1..Len(ev'.batch) :
                files'[Len(files) + i].file = ev'.batch[i]]_vars

\* C10 witness: a drop of a non-empty batch while the committed view still
\* shows the drag highlight; the flag is false and the batch is appended.
DragFlagWitness ==
  /\ ev.op = "drop" /\ pc = "render"
  /\ renderedDragOver /\ ~isDragOver
  /\ ev.batch # <<>>
  /\ Len(files) >= Len(ev.batch)

====
